---------------------------- MODULE Spec2Model ----------------------------
(***************************************************************************)
(* A state-machine model of infinite-notepad (src/main.py): the notes      *)
(* editor with its math auto-evaluator, the drawing canvas, and the three  *)
(* export operations.                                                      *)
(*                                                                         *)
(* Text is a sequence of one-character strings.  The Qt event loop is      *)
(* single threaded: a user event is taken only when no slot is running     *)
(* (stack = <<>>), and a slot invoked by a signal runs to completion       *)
(* before its emitter continues (direct connections).                      *)
(***************************************************************************)
EXTENDS Integers, Sequences, FiniteSets, TLC

(***************************************************************************)
(* Bounds of the model.                                                    *)
(***************************************************************************)
\* The user types only while the notes text is shorter than this.
MaxLen == 4
\* The canvas buffer records at most this many painted segments per fill.
MaxSegs == 2

(***************************************************************************)
(* Characters.                                                             *)
(***************************************************************************)
NL == "\n"
EQ == "="
\* The keys the modelled user presses in the notes editor.
Alphabet == {"1", "+", " ", EQ, NL}
DigitChars == {"0", "1", "2", "3", "4", "5", "6", "7", "8", "9"}
DigitSeq == <<"0", "1", "2", "3", "4", "5", "6", "7", "8", "9">>
\* The characters of the expressions the user has evaluated: the typed ones.
ExprChars == Alphabet \ {NL}
\* Characters str.strip() removes (those that can occur in the model).
Whitespace == {" ", NL, "\t", "\r"}

DigitVal(c) == CHOOSE d \in 0..9 : DigitSeq[d + 1] = c

\* str(n) for a natural number n.
RECURSIVE DecStr(_)
DecStr(n) == IF n < 10 THEN <<DigitSeq[n + 1]>>
             ELSE DecStr(n \div 10) \o <<DigitSeq[(n % 10) + 1]>>

(***************************************************************************)
(* Python string operations used by autoEvaluateTypedMath.                 *)
(***************************************************************************)
\* text.split('\n'): always at least one line.
RECURSIVE Split(_)
Split(t) ==
    IF t = <<>> THEN << <<>> >>
    ELSE LET rest == Split(Tail(t)) IN
         IF Head(t) = NL THEN << <<>> >> \o rest
         ELSE << <<Head(t)>> \o Head(rest) >> \o Tail(rest)

\* '\n'.join(lines)
RECURSIVE Join(_)
Join(ls) ==
    IF Len(ls) = 0 THEN <<>>
    ELSE IF Len(ls) = 1 THEN ls[1]
    ELSE ls[1] \o <<NL>> \o Join(Tail(ls))

\* s.endswith('=')
EndsWithEq(s) == Len(s) > 0 /\ s[Len(s)] = EQ

\* s[:-1]
DropLast(s) == SubSeq(s, 1, Len(s) - 1)

RECURSIVE LStrip(_)
LStrip(s) == IF s # <<>> /\ Head(s) \in Whitespace THEN LStrip(Tail(s)) ELSE s

RECURSIVE RStrip(_)
RStrip(s) == IF s # <<>> /\ s[Len(s)] \in Whitespace THEN RStrip(DropLast(s)) ELSE s

\* s.strip()
Strip(s) == RStrip(LStrip(s))

\* lines[-1]
LastLine(t) == LET ls == Split(t) IN ls[Len(ls)]

\* lines[:-1]
InitLines(t) == LET ls == Split(t) IN SubSeq(ls, 1, Len(ls) - 1)


(***************************************************************************)
(* sympy.sympify on the strings of ExprChars: decimal integers, unary and  *)
(* binary "+", chained "==" comparisons, blanks between tokens.  The       *)
(* result is [ok |-> TRUE, str |-> str(result)], or Raised when sympify    *)
(* raises SympifyError.                                                    *)
(***************************************************************************)
Raised == [ok |-> FALSE, str |-> <<>>]
Returned(s) == [ok |-> TRUE, str |-> s]

NumTok(n) == [k |-> "num", v |-> n]
OpTok(o) == [k |-> o, v |-> 0]

RECURSIVE NumVal(_)
NumVal(run) == IF run = <<>> THEN 0
               ELSE NumVal(DropLast(run)) * 10 + DigitVal(run[Len(run)])

\* A digit run is one integer literal unless it has a leading zero followed
\* by a non-zero digit, which Python rejects.
RunTok(run) ==
    IF run = <<>> THEN <<>>
    ELSE IF Len(run) > 1 /\ run[1] = "0" /\ NumVal(run) # 0 THEN <<OpTok("bad")>>
    ELSE <<NumTok(NumVal(run))>>

RECURSIVE Lex(_, _)
Lex(s, run) ==
    IF s = <<>> THEN RunTok(run)
    ELSE LET c == Head(s)
             r == Tail(s)
         IN  IF c \in DigitChars THEN Lex(r, Append(run, c))
             ELSE IF c = " " THEN RunTok(run) \o Lex(r, <<>>)
             ELSE IF c = "+" THEN RunTok(run) \o <<OpTok("+")>> \o Lex(r, <<>>)
             ELSE IF c = EQ /\ r # <<>> /\ Head(r) = EQ
                  THEN RunTok(run) \o <<OpTok("==")>> \o Lex(Tail(r), <<>>)
             ELSE RunTok(run) \o <<OpTok("bad")>> \o Lex(r, <<>>)

\* The operands of a chain of comparisons: the token sequence cut at "==".
RECURSIVE Operands(_)
Operands(toks) ==
    IF toks = <<>> THEN << <<>> >>
    ELSE LET rest == Operands(Tail(toks)) IN
         IF Head(toks).k = "==" THEN << <<>> >> \o rest
         ELSE << <<Head(toks)>> \o Head(rest) >> \o Tail(rest)

\* A sum: signs, a number, and then any number of (signs, number) with at
\* least one sign between two numbers.
ValidSum(g) ==
    /\ Len(g) > 0
    /\ g[Len(g)].k = "num"
    /\ \A i \in 1..Len(g) : g[i].k \in {"num", "+"}
    /\ \A i \in 1..(Len(g) - 1) : ~(g[i].k = "num" /\ g[i + 1].k = "num")

RECURSIVE SumVal(_)
SumVal(g) == IF g = <<>> THEN 0 ELSE Head(g).v + SumVal(Tail(g))

sympify(expr) ==
    LET ops == Operands(Lex(expr, <<>>)) IN
    IF \E i \in 1..Len(ops) : ~ValidSum(ops[i]) THEN Raised
    ELSE IF Len(ops) = 1 THEN Returned(DecStr(SumVal(ops[1])))
    ELSE IF \A i \in 1..(Len(ops) - 1) : SumVal(ops[i]) = SumVal(ops[i + 1])
         THEN Returned(<<"T", "r", "u", "e">>)
    ELSE Returned(<<"F", "a", "l", "s", "e">>)

(***************************************************************************)
(* State.                                                                  *)
(***************************************************************************)
VARIABLES
    text,             \* notes_editor: the document's plain text
    cursor,           \* notes_editor: the text cursor's position
    signalsBlocked,   \* notes_editor.signalsBlocked()
    stack,            \* the active invocations of autoEvaluateTypedMath
    image,            \* canvas.image: its fill and the segments painted on it
    current_tool,     \* canvas.current_tool
    pen_color,        \* canvas.pen_color
    highlight_color,  \* canvas.highlight_color
    eraser_color,     \* canvas.eraser_color
    drawing,          \* canvas.drawing
    last_point,       \* canvas.last_point
    files,            \* the files the exports have written: path -> kind
    dialog,           \* the message box last shown to the user
    crashed,          \* an exception left a slot: PyQt5 aborts the process
    exported,         \* history: the last export operation and its path
    picked,           \* history: setPenColor has run
    wiped,            \* history: segments wiped by the last clearCanvas,
                      \*   -1 when the buffer was never cleared or painted since
    fresh             \* history: last_point was recorded since the last left
                      \*   press, and no left release came since

notesVars == <<text, cursor, signalsBlocked, stack>>
canvasVars == <<image, current_tool, pen_color, highlight_color, eraser_color,
                drawing, last_point, picked, wiped, fresh>>
exportVars == <<files, dialog, crashed, exported>>
vars == <<notesVars, canvasVars, exportVars>>


(***************************************************************************)
(* The notes editor and autoEvaluateTypedMath.                             *)
(***************************************************************************)
\* One invocation of autoEvaluateTypedMath: where it is, the text it read
\* (its local `text`), whether it called sympify, whether sympify raised.
Frame(pc, t, called, raised) ==
    [pc |-> pc, text |-> t, called |-> called, raised |-> raised]

Top == stack[Len(stack)]
SetTop(f) == [stack EXCEPT ![Len(stack)] = f]
Pop == SubSeq(stack, 1, Len(stack) - 1)

\* The editor emits textChanged: the connected slot (line 138) is called
\* unless the editor's signals are blocked.
textChanged(stk) ==
    IF signalsBlocked THEN stk
    ELSE Append(stk, Frame("enter", <<>>, FALSE, FALSE))

\* A rewrite that forgets the `=`: f"{expr}{result}"
NewLastLine_NoEq(expr, result) == expr \o result

\* lines[-1] = f"{expr}={result}"
NewLastLine(expr, result) == expr \o <<EQ>> \o result

\* A rewrite that sets the editor to the new last line alone.
UpdatedText_LastOnly(lines, newLast) == newLast

\* '\n'.join(lines) after lines[-1] was replaced
UpdatedText(lines, newLast) == Join(SubSeq(lines, 1, Len(lines) - 1) \o <<newLast>>)

\* A handler without the try/except: the exception leaves it.
OnException_Propagates(t) ==
    [called |-> TRUE, raised |-> TRUE, set |-> FALSE, text |-> t, escaped |-> TRUE]

\* except Exception: pass
OnException(t) ==
    [called |-> TRUE, raised |-> TRUE, set |-> FALSE, text |-> t, escaped |-> FALSE]

\* Lines 248-259 and 262-263 on the text t the handler read: whether
\* sympify was called, whether it raised, whether setPlainText is called
\* and with which text, whether an exception leaves the handler.
Evaluate(t) ==
    LET lines == Split(t)
        last_line == lines[Len(lines)]
        untouched == [called |-> FALSE, raised |-> FALSE, set |-> FALSE,
                      text |-> t, escaped |-> FALSE]
    IN  IF ~EndsWithEq(last_line) THEN untouched
        ELSE LET expr == Strip(DropLast(last_line)) IN
             IF expr = <<>> THEN untouched
             ELSE LET result == sympify(expr) IN
                  IF result.ok
                  THEN [called |-> TRUE, raised |-> FALSE, set |-> TRUE,
                        text |-> UpdatedText(lines, NewLastLine(expr, result.str)),
                        escaped |-> FALSE]
                  ELSE OnException(t)

\* The model of sympify covers the expressions over ExprChars: the user is
\* not followed into edits that would have anything else evaluated.
InDomain(t) ==
    LET l == LastLine(t) IN
    EndsWithEq(l) => \A i \in 1..Len(l) : l[i] \in ExprChars

Idle == stack = <<>> /\ ~crashed

\* The user types the character c at the cursor.
TypeChar(c) ==
    /\ Idle
    /\ Len(text) < MaxLen
    /\ LET t == SubSeq(text, 1, cursor) \o <<c>> \o SubSeq(text, cursor + 1, Len(text)) IN
       /\ InDomain(t)
       /\ text' = t
    /\ cursor' = cursor + 1
    /\ stack' = textChanged(stack)
    /\ UNCHANGED <<signalsBlocked, canvasVars, exportVars>>

\* The user deletes the character before the cursor.
Backspace ==
    /\ Idle
    /\ cursor > 0
    /\ LET t == SubSeq(text, 1, cursor - 1) \o SubSeq(text, cursor + 1, Len(text)) IN
       /\ InDomain(t)
       /\ text' = t
    /\ cursor' = cursor - 1
    /\ stack' = textChanged(stack)
    /\ UNCHANGED <<signalsBlocked, canvasVars, exportVars>>

\* The user puts the cursor at position p (no signal the program listens to).
PlaceCursor(p) ==
    /\ Idle
    /\ p # cursor
    /\ cursor' = p
    /\ UNCHANGED <<text, signalsBlocked, stack, canvasVars, exportVars>>

\* An entry that does not block the editor's signals.
autoEvaluateTypedMath_enter_NoBlock ==
    /\ ~crashed
    /\ stack # <<>>
    /\ Top.pc = "enter"
    /\ stack' = SetTop([Top EXCEPT !.pc = "body"])
    /\ UNCHANGED <<text, cursor, signalsBlocked, canvasVars, exportVars>>

\* Line 247: self.notes_editor.blockSignals(True)
autoEvaluateTypedMath_enter ==
    /\ ~crashed
    /\ stack # <<>>
    /\ Top.pc = "enter"
    /\ signalsBlocked' = TRUE
    /\ stack' = SetTop([Top EXCEPT !.pc = "body"])
    /\ UNCHANGED <<text, cursor, canvasVars, exportVars>>

\* Lines 248-259: read the text, evaluate the last line, and on success
\* setPlainText(updated_text), which puts the cursor at the start and
\* emits textChanged.
autoEvaluateTypedMath_body ==
    /\ ~crashed
    /\ stack # <<>>
    /\ Top.pc = "body"
    /\ LET r == Evaluate(text) IN
       IF r.escaped
       THEN /\ crashed' = TRUE
            /\ stack' = <<>>
            /\ UNCHANGED <<text, cursor, signalsBlocked, canvasVars, files, dialog, exported>>
       ELSE IF r.set
       THEN /\ text' = r.text
            /\ cursor' = 0
            /\ stack' = textChanged(SetTop(Frame("cursor", text, r.called, r.raised)))
            /\ UNCHANGED <<signalsBlocked, canvasVars, exportVars>>
       ELSE /\ stack' = SetTop(Frame("exit", text, r.called, r.raised))
            /\ UNCHANGED <<text, cursor, signalsBlocked, canvasVars, exportVars>>

\* Line 261: moveCursor(End)
autoEvaluateTypedMath_cursor ==
    /\ ~crashed
    /\ stack # <<>>
    /\ Top.pc = "cursor"
    /\ cursor' = Len(text)
    /\ stack' = SetTop([Top EXCEPT !.pc = "exit"])
    /\ UNCHANGED <<text, signalsBlocked, canvasVars, exportVars>>

\* Line 264: self.notes_editor.blockSignals(False), and return.
autoEvaluateTypedMath_exit ==
    /\ ~crashed
    /\ stack # <<>>
    /\ Top.pc = "exit"
    /\ signalsBlocked' = FALSE
    /\ stack' = Pop
    /\ UNCHANGED <<text, cursor, canvasVars, exportVars>>

(***************************************************************************)
(* Colors and the canvas.                                                  *)
(***************************************************************************)
QColor(r, g, b, a) == [valid |-> TRUE, r |-> r, g |-> g, b |-> b, a |-> a]
White == QColor(255, 255, 255, 255)
\* QImage.fill(Qt.white) with nothing painted on it
FilledWhite == [fill |-> White, ops |-> <<>>]
\* QPoint()
Origin == <<0, 0>>


\* The widths set in CanvasWidget.__init__ and the highlighter's alpha.
pen_width == 3
highlighter_width == 20
eraser_width == 20
HighlightAlpha == 128

\* The positions pointer events are delivered at.
Points == {Origin, <<7, 5>>}
Buttons == {"left", "right"}
Tools == {"pen", "highlighter", "eraser"}

\* What QColorDialog.getColor returns: a chosen color, or an invalid one
\* when the dialog is cancelled.
InvalidColor == [valid |-> FALSE, r |-> 0, g |-> 0, b |-> 0, a |-> 255]
ValidColors == {QColor(0, 0, 0, 255), QColor(0, 0, 255, 200)}
DialogResults == ValidColors \cup {InvalidColor}

Init ==
    /\ text = <<>>
    /\ cursor = 0
    /\ signalsBlocked = FALSE
    /\ stack = <<>>
    /\ image = FilledWhite
    /\ current_tool = "pen"
    /\ pen_color = QColor(0, 0, 0, 255)
    /\ highlight_color = QColor(255, 255, 0, 128)
    /\ eraser_color = QColor(255, 255, 255, 255)
    /\ drawing = FALSE
    /\ last_point = Origin
    /\ picked = FALSE
    /\ wiped = -1
    /\ fresh = FALSE
    /\ files = {}
    /\ dialog = "none"
    /\ crashed = FALSE
    /\ exported = [op |-> "none", path |-> ""]

setTool(tool_name) ==
    /\ Idle
    /\ current_tool' = tool_name
    /\ UNCHANGED <<image, pen_color, highlight_color, eraser_color, drawing,
                   last_point, picked, wiped, fresh, notesVars, exportVars>>

\* A setPenColor that leaves the highlighter as it was.
setPenColor_PenOnly(color) ==
    /\ pen_color' = color
    /\ picked' = TRUE
    /\ UNCHANGED highlight_color

\* A setPenColor that copies the chosen color's alpha to the highlighter.
setPenColor_KeepsAlpha(color) ==
    /\ pen_color' = color
    /\ highlight_color' = QColor(color.r, color.g, color.b, color.a)
    /\ picked' = TRUE

setPenColor(color) ==
    /\ pen_color' = color
    /\ highlight_color' = QColor(color.r, color.g, color.b, HighlightAlpha)
    /\ picked' = TRUE

\* The color picker returned `color`.
pickColor(color) ==
    /\ Idle
    /\ IF color.valid
       THEN setPenColor(color)
       ELSE UNCHANGED <<pen_color, highlight_color, picked>>
    /\ UNCHANGED <<image, current_tool, eraser_color, drawing, last_point,
                   wiped, fresh, notesVars, exportVars>>

mousePressEvent(button, pos) ==
    /\ Idle
    /\ IF button = "left"
       THEN /\ drawing' = TRUE
            /\ last_point' = pos
            /\ fresh' = TRUE
       ELSE UNCHANGED <<drawing, last_point, fresh>>
    /\ UNCHANGED <<image, current_tool, pen_color, highlight_color, eraser_color,
                   picked, wiped, notesVars, exportVars>>

\* A tool selection whose highlighter paints with the pen color.
ToolPen_HighlighterOpaque ==
    IF current_tool = "pen" THEN [color |-> pen_color, width |-> pen_width]
    ELSE IF current_tool = "highlighter"
         THEN [color |-> pen_color, width |-> highlighter_width]
    ELSE [color |-> eraser_color, width |-> eraser_width]

\* The QPen of lines 60-65.
ToolPen ==
    IF current_tool = "pen" THEN [color |-> pen_color, width |-> pen_width]
    ELSE IF current_tool = "highlighter"
         THEN [color |-> highlight_color, width |-> highlighter_width]
    ELSE [color |-> eraser_color, width |-> eraser_width]

\* painter.drawLine(from, to) with the pen `pen` on the image img
drawLine(img, pen, from, to) ==
    [img EXCEPT !.ops = Append(@, [from |-> from, to |-> to,
                                   color |-> pen.color, width |-> pen.width])]

mouseMoveEvent(buttons, pos) ==
    /\ Idle
    /\ IF "left" \in buttons /\ drawing
       THEN /\ Len(image.ops) < MaxSegs
            /\ image' = drawLine(image, ToolPen, last_point, pos)
            /\ last_point' = pos
            /\ wiped' = -1
            /\ UNCHANGED fresh
       ELSE UNCHANGED <<image, last_point, wiped, fresh>>
    /\ UNCHANGED <<current_tool, pen_color, highlight_color, eraser_color, drawing,
                   picked, notesVars, exportVars>>

\* A release that does not end the stroke.
mouseReleaseEvent_KeepsDrawing(button) ==
    /\ Idle
    /\ IF button = "left"
       THEN /\ fresh' = FALSE
            /\ UNCHANGED drawing
       ELSE UNCHANGED <<drawing, fresh>>
    /\ UNCHANGED <<image, current_tool, pen_color, highlight_color, eraser_color,
                   last_point, picked, wiped, notesVars, exportVars>>

mouseReleaseEvent(button) ==
    /\ Idle
    /\ IF button = "left"
       THEN /\ drawing' = FALSE
            /\ fresh' = FALSE
       ELSE UNCHANGED <<drawing, fresh>>
    /\ UNCHANGED <<image, current_tool, pen_color, highlight_color, eraser_color,
                   last_point, picked, wiped, notesVars, exportVars>>

\* A clearCanvas that repaints the widget without filling the image.
clearCanvas_NoFill ==
    /\ Idle
    /\ wiped' = Len(image.ops)
    /\ UNCHANGED <<image, current_tool, pen_color, highlight_color, eraser_color,
                   drawing, last_point, picked, fresh, notesVars, exportVars>>

clearCanvas ==
    /\ Idle
    /\ image' = [fill |-> White, ops |-> <<>>]
    /\ wiped' = Len(image.ops)
    /\ UNCHANGED <<current_tool, pen_color, highlight_color, eraser_color, drawing,
                   last_point, picked, fresh, notesVars, exportVars>>

(***************************************************************************)
(* Exports.  QFileDialog.getSaveFileName returns the chosen path, or ""    *)
(* when the dialog is cancelled.                                           *)
(***************************************************************************)
Cancelled == ""
\* Paths that can be opened for writing, and one that cannot.
Writable == {"/tmp/a", "/tmp/b"}
Unwritable == {"/nodir/out"}
Paths == {Cancelled} \cup Writable \cup Unwritable

\* The file system after `content` was written to `path`.
Write(path, kind, t, img) ==
    {f \in files : f.path # path}
        \cup {[path |-> path, kind |-> kind, text |-> t, image |-> img]}

\* Lines 372-376 and 88-89: QImage.save returns False when it cannot write
\* the file; the result is not looked at.
saveCanvasAsImage(filename) ==
    /\ Idle
    /\ exported' = [op |-> "saveCanvasAsImage", path |-> filename]
    /\ dialog' = "none"
    /\ IF filename # Cancelled /\ filename \in Writable
       THEN files' = Write(filename, "image", <<>>, image)
       ELSE UNCHANGED files
    /\ UNCHANGED <<crashed, notesVars, canvasVars>>

\* Lines 381-386: open() raises OSError when the path cannot be opened;
\* nothing catches it, it leaves the slot and PyQt5 aborts the process.
saveNotesAsText(filename) ==
    /\ Idle
    /\ exported' = [op |-> "saveNotesAsText", path |-> filename]
    /\ dialog' = "none"
    /\ IF filename = Cancelled THEN UNCHANGED <<files, crashed>>
       ELSE IF filename \in Writable
       THEN /\ files' = Write(filename, "text", text, FilledWhite)
            /\ UNCHANGED crashed
       ELSE /\ crashed' = TRUE
            /\ UNCHANGED files
    /\ UNCHANGED <<notesVars, canvasVars>>

\* Lines 299-346: a QPainter on a QPdfWriter whose file cannot be opened is
\* inactive and paints nothing; the message box is shown all the same.
saveAsPDF(filename) ==
    /\ Idle
    /\ exported' = [op |-> "saveAsPDF", path |-> filename]
    /\ IF filename = Cancelled
       THEN /\ dialog' = "none"
            /\ UNCHANGED files
       ELSE /\ IF filename \in Writable
               THEN files' = Write(filename, "pdf", text, image)
               ELSE UNCHANGED files
            /\ dialog' = "PDF Saved"
    /\ UNCHANGED <<crashed, notesVars, canvasVars>>

NextNotes ==
    \/ \E c \in Alphabet : TypeChar(c)
    \/ Backspace
    \/ \E p \in 0..Len(text) : PlaceCursor(p)
    \/ autoEvaluateTypedMath_enter
    \/ autoEvaluateTypedMath_body
    \/ autoEvaluateTypedMath_cursor
    \/ autoEvaluateTypedMath_exit

NextCanvas ==
    \/ \E t \in Tools : setTool(t)
    \/ \E c \in DialogResults : pickColor(c)
    \/ \E b \in Buttons, p \in Points : mousePressEvent(b, p)
    \/ \E bs \in SUBSET Buttons, p \in Points : mouseMoveEvent(bs, p)
    \/ \E b \in Buttons : mouseReleaseEvent(b)
    \/ clearCanvas

NextExport ==
    \/ \E f \in Paths : saveCanvasAsImage(f)
    \/ \E f \in Paths : saveNotesAsText(f)
    \/ \E f \in Paths : saveAsPDF(f)

Next == NextNotes \/ NextCanvas \/ NextExport

\* The whole program, and its three parts on their own: the notes actions
\* leave the canvas and the files alone, the canvas actions leave the notes
\* and the files alone, and the exports only read the notes and the canvas.
Spec == Init /\ [][Next]_vars
SpecNotes == Init /\ [][NextNotes]_vars
SpecCanvas == Init /\ [][NextCanvas]_vars
SpecExport == Init /\ [][NextExport]_vars

(***************************************************************************)
(* Properties of the auto-evaluator.  They are stated where an invocation  *)
(* has done all its work and is about to return (pc = "exit"), comparing   *)
(* the notes text with the text the invocation read.                       *)
(***************************************************************************)
Returning == stack # <<>> /\ Top.pc = "exit"
\* The text before the `=` that ends the last line of t.
TypedExpr(t) == DropLast(LastLine(t))

\* C1 as stated: whenever the last line read was `E=` with E accepted by
\* the evaluator, the last line after the handler is `E=<result of E>`.
C1_AsStated ==
    (Returning /\ EndsWithEq(LastLine(Top.text)) /\ sympify(TypedExpr(Top.text)).ok)
        => LastLine(text) =
               TypedExpr(Top.text) \o <<EQ>> \o sympify(TypedExpr(Top.text)).str

\* C1, amended: whenever the last line read was `E=` with E accepted by the
\* evaluator, the last line after the handler is `S=<result of S>`, S being
\* E without its leading and trailing whitespace.
C1_StrippedExprRewritten ==
    (Returning /\ EndsWithEq(LastLine(Top.text)) /\ sympify(TypedExpr(Top.text)).ok)
        => LET S == Strip(TypedExpr(Top.text)) IN
           /\ sympify(S).ok
           /\ LastLine(text) = S \o <<EQ>> \o sympify(S).str

\* The last line `1+1=` was read, evaluated and rewritten to `1+1=2`.
C1_Witness ==
    /\ Returning
    /\ Top.called /\ ~Top.raised
    /\ LastLine(Top.text) = <<"1", "+", "1", "=">>
    /\ LastLine(text) = <<"1", "+", "1", "=", "2">>

\* The last line of t ends with `=` and the evaluator rejects what is
\* before it.
Rejected(t) ==
    /\ EndsWithEq(LastLine(t))
    /\ Strip(TypedExpr(t)) # <<>>
    /\ ~sympify(Strip(TypedExpr(t))).ok

\* C2: when the last line read ends with `=` and the evaluator rejects its
\* expression, the text is what it was, the handler gets to its return,
\* and no exception leaves it.
C2_RejectedLeavesText ==
    /\ ~crashed
    /\ (stack # <<>> /\ Top.pc \in {"cursor", "exit"} /\ Rejected(Top.text))
           => (text = Top.text /\ Top.pc = "exit")

C2_Witness ==
    /\ Returning
    /\ Top.raised
    /\ Top.text = <<" ", "1", "+", "=">>
    /\ text = Top.text

\* C3: at most one invocation of the handler is active; signals are blocked
\* while it works and enabled whenever none is active; and every edit of
\* the user starts an invocation.
C3_OneHandlerAtATime ==
    /\ [](/\ Len(stack) <= 1
          /\ (stack = <<>> => ~signalsBlocked)
          /\ (stack # <<>> /\ Top.pc # "enter" => signalsBlocked))
    /\ [][(stack = <<>> /\ text' # text)
             => (Len(stack') = 1 /\ stack'[1].pc = "enter")]_vars

\* The handler has rewritten the text with setPlainText and no second
\* invocation was started.
C3_Witness ==
    /\ Len(stack) = 1
    /\ Top.pc = "cursor"
    /\ text # Top.text
    /\ signalsBlocked

\* No `=` at the end of the last line of t, or nothing but whitespace
\* before it.
NoExpression(t) ==
    \/ ~EndsWithEq(LastLine(t))
    \/ Strip(TypedExpr(t)) = <<>>

\* C10: the handler leaves every line but the last as it was and the number
\* of lines as it was; with no `=` at the end of the last line, or nothing
\* before it, it leaves the whole text and does not call the evaluator.
C10_OnlyLastLineChanges ==
    Returning =>
        /\ InitLines(text) = InitLines(Top.text)
        /\ Len(Split(text)) = Len(Split(Top.text))
        /\ NoExpression(Top.text) => (text = Top.text /\ ~Top.called)

\* The last of two lines was rewritten.
C10_Witness ==
    /\ Returning
    /\ Top.text = <<"1", NL, "1", "=">>
    /\ text = <<"1", NL, "1", "=", "1">>

(***************************************************************************)
(* Properties of the canvas.                                               *)
(***************************************************************************)
SameRGB(c, d) == c.r = d.r /\ c.g = d.g /\ c.b = d.b

\* The color and width C4 gives each tool.
ClaimedPen ==
    CASE current_tool = "pen" -> [color |-> pen_color, width |-> 3]
      [] current_tool = "highlighter" -> [color |-> highlight_color, width |-> 20]
      [] current_tool = "eraser" -> [color |-> image.fill, width |-> 20]

\* C4: a left press records its position and opens a stroke; during a
\* stroke every move with the left button held paints exactly one segment,
\* from the last recorded position to the event's, in the selected tool's
\* color and width, and then records the event's position.
C4_MoveDrawsOneSegment ==
    [][/\ \A p \in Points :
              mousePressEvent("left", p) => (drawing' /\ last_point' = p)
       /\ drawing =>
              \A bs \in {held \in SUBSET Buttons : "left" \in held}, p \in Points :
                  mouseMoveEvent(bs, p)
                      => /\ image'.fill = image.fill
                         /\ image'.ops = Append(image.ops,
                                [from |-> last_point, to |-> p,
                                 color |-> ClaimedPen.color,
                                 width |-> ClaimedPen.width])
                         /\ last_point' = p]_vars

\* Two segments of one stroke, the second starting where the first ended,
\* the first with the pen and the second with the highlighter.
C4_Witness ==
    /\ drawing
    /\ Len(image.ops) = 2
    /\ image.ops[1].to = image.ops[2].from
    /\ image.ops[1].width = 3
    /\ image.ops[2].width = 20
    /\ image.ops[2].color = highlight_color
    /\ image.ops[2].to = last_point

\* C5: when clearCanvas was the last operation to touch the buffer, the
\* buffer equals the all-white buffer of start-up.
C5_ClearRestoresInitialBuffer ==
    wiped >= 0 => image = [fill |-> QColor(255, 255, 255, 255), ops |-> <<>>]

\* clearCanvas wiped a buffer holding two segments, after a color was picked.
C5_Witness ==
    /\ wiped >= 2
    /\ picked
    /\ image = FilledWhite

\* C6: a valid result of the color dialog becomes the pen color as it is,
\* and the highlighter color with its alpha replaced by 128; an invalid
\* result changes neither.
C6_PickSetsPenAndHighlighter ==
    [][\A c \in DialogResults :
          pickColor(c) =>
              IF c.valid
              THEN /\ pen_color' = c
                   /\ highlight_color' =
                          [valid |-> TRUE, r |-> c.r, g |-> c.g, b |-> c.b, a |-> 128]
              ELSE /\ pen_color' = pen_color
                   /\ highlight_color' = highlight_color]_vars

\* A translucent blue was picked.
C6_Witness ==
    /\ pen_color = QColor(0, 0, 255, 200)
    /\ highlight_color = QColor(0, 0, 255, 128)

\* C7 as stated: in every state the highlighter has the pen's red, green
\* and blue at reduced opacity and the eraser has the background color.
C7_AsStated ==
    /\ SameRGB(highlight_color, pen_color)
    /\ highlight_color.a < 255
    /\ eraser_color = image.fill

\* C7, amended: in every state the eraser has the background color and the
\* highlighter's alpha is 128; once a color has been picked the highlighter
\* has the pen's red, green and blue, and until then the pen is black and
\* the highlighter yellow.
C7_HighlighterFollowsPickedColor ==
    /\ eraser_color = image.fill
    /\ highlight_color.a = 128
    /\ picked => SameRGB(highlight_color, pen_color)
    /\ ~picked => /\ pen_color = QColor(0, 0, 0, 255)
                  /\ highlight_color = QColor(255, 255, 0, 128)

\* A color was picked in the middle of a stroke made with the highlighter.
C7_Witness ==
    /\ picked
    /\ drawing
    /\ image.ops # <<>>
    /\ image.ops[1].color = QColor(255, 255, 0, 128)
    /\ SameRGB(highlight_color, pen_color)

\* C9: a left release ends the stroke; with no stroke open nothing but a
\* clear changes the buffer and nothing but a left press, which opens a
\* stroke at its own position, changes the last recorded position; the
\* other button neither opens nor ends a stroke; and every segment starts
\* at a position recorded in the stroke it belongs to.
C9_StrokesDoNotJoin ==
    [][/\ (drawing /\ mouseReleaseEvent("left")) => ~drawing'
       /\ ~drawing => /\ image' = image \/ image' = FilledWhite
                      /\ last_point' # last_point => drawing'
       /\ \A p \in Points :
              mousePressEvent("left", p) => (drawing' /\ last_point' = p)
       /\ \A b \in Buttons \ {"left"} :
              (mouseReleaseEvent(b) \/ \E p \in Points : mousePressEvent(b, p))
                  => UNCHANGED <<drawing, last_point, image>>
       /\ Len(image'.ops) > Len(image.ops) => fresh]_vars

\* Two strokes, the second not starting where the first ended.
C9_Witness ==
    /\ ~drawing
    /\ Len(image.ops) = 2
    /\ image.ops[1].to # image.ops[2].from

(***************************************************************************)
(* Property of the exports.                                                *)
(***************************************************************************)
\* C8: after an export to a path that cannot be written the user has been
\* shown an error and the process lives; after a cancelled one no file was
\* written.
C8_FailedExportShowsError ==
    /\ (exported.op # "none" /\ exported.path \in Unwritable)
           => (dialog = "error" /\ ~crashed)
    /\ (exported.op # "none" /\ exported.path = Cancelled) => files = {}

=============================================================================
